---- MODULE Spec2Model ----
(***************************************************************************)
(* Model of sound/soc/bcm/rpi-cirrus.c: the ASoC machine driver of the     *)
(* Cirrus Logic Audio Card (WM5102 codec + WM8804 S/PDIF transceiver).     *)
(*                                                                         *)
(* The driver's private state (struct rpi_cirrus_priv) is shared by the    *)
(* callbacks the ALSA/ASoC framework invokes: hw_params, hw_free, the two  *)
(* bias-level callbacks, the "dummy SPDIFRX" widget event and the mixer    *)
(* controls.  Every callback invocation is a thread with a program counter *)
(* and a frame of locals; steps are taken at the granularity of one shared *)
(* access or one helper call.  Codec calls (set_pll, set_sysclk, ...) are  *)
(* external: each returns 0 or a negative errno, chosen nondeterministic-  *)
(* ally, and a failed call leaves the codec unchanged.                     *)
(***************************************************************************)
EXTENDS Integers, Sequences, FiniteSets, TLC

(* ------------------------------------------------------------------ *)
(* Program constants                                                   *)
(* ------------------------------------------------------------------ *)
WM8804_CLKOUT_HZ == 12000000
RPI_CIRRUS_DEFAULT_RATE == 44100
WM5102_MAX_SYSCLK_1 == 49152000
WM5102_MAX_SYSCLK_2 == 45158400
NUM_MIN_RATES == 3
NUM_MAX_RATES == 3
\* unsigned values of 2^31 and more are written as the int of the same 32
\* bits: UINT_MAX is 0xffffffff
UINT_MAX == -1

(* ------------------------------------------------------------------ *)
(* Bounds of the model                                                 *)
(* ------------------------------------------------------------------ *)
\* number of concurrently running callback invocations
NumThreads == 2
\* largest enumerated index a control write may carry (user supplied)
MaxItem == 3
\* calc_sysclk is applied to every rate from 0 to MaxCalcRate
MaxCalcRate == 12000

Threads == 1..NumThreads

\* SNDRV_PCM_STREAM_PLAYBACK = 0, SNDRV_PCM_STREAM_CAPTURE = 1
Streams == {0, 1}
\* sample rates offered to hw_params: one below the WM8804 limit, one of
\* each sysclk family at or above it
Rates == {8000, 44100, 48000}
\* snd_pcm_format_width() of the negotiated format
Widths == {16, 32}
\* negative errno values a codec call may return
Errs == {-22}
Results == {0} \cup Errs
BiasLevels == {"OFF", "STANDBY", "PREPARE", "ON"}
\* the dapm context a bias callback is invoked for
Devs == {"wm5102", "other"}
Events == {"POST_PMU", "POST_PMD", "OTHER"}

VARIABLES
    \* struct rpi_cirrus_priv
    card_rate, sync_path_enable, fll1_freq, params_set,
    min_rate_idx, max_rate_idx, iec958_status,
    lock,
    \* rpi_cirrus_dai_link2_params.rate_min / rate_max
    link2_rate,
    \* the WM5102 as the driver's calls leave it
    wm5102,
    \* per invocation: position and locals
    pc, frame

privVars == <<card_rate, sync_path_enable, fll1_freq, params_set,
              min_rate_idx, max_rate_idx, iec958_status, link2_rate>>
vars == <<card_rate, sync_path_enable, fll1_freq, params_set,
          min_rate_idx, max_rate_idx, iec958_status, lock, link2_rate, wm5102,
          pc, frame>>

(* ------------------------------------------------------------------ *)
(* Pure helpers                                                        *)
(* ------------------------------------------------------------------ *)
\* calc_sysclk with the two families exchanged
calc_sysclk_swapped(rate) ==
    IF rate % 4000 # 0 THEN WM5102_MAX_SYSCLK_1 ELSE WM5102_MAX_SYSCLK_2

calc_sysclk(rate) ==
    IF rate % 4000 # 0 THEN WM5102_MAX_SYSCLK_2 ELSE WM5102_MAX_SYSCLK_1

\* one codec call as recorded in the invoking callback's log
Call(fn, id, src, a, b, res) ==
    [fn |-> fn, id |-> id, src |-> src, a |-> a, b |-> b, res |-> res]

Frame0 ==
    [op |-> "none", stream |-> 0, rate |-> 0, width |-> 0,
     level |-> "OFF", bias_level |-> "OFF", dev |-> "wm5102", event |-> "OTHER",
     item |-> 0, idx_changed |-> FALSE, idx_was_item |-> FALSE,
     min_rate |-> 0, max_rate |-> 0,
     status |-> <<0, 0, 0, 0>>, old_status |-> <<0, 0, 0, 0>>,
     clk_freq |-> 0, aif2_freq |-> 0,
     ret |-> 0, old_params_set |-> {}, tmp |-> {},
     before |-> [card_rate |-> 0, fll1_freq |-> 0, params_set |-> {},
                 sync_path_enable |-> FALSE],
     calls |-> <<>>]

\* the ClockState fields as an invocation finds them when it has taken the
\* lock (history, for the properties only: no action reads it)
Snapshot ==
    [card_rate |-> card_rate, fll1_freq |-> fll1_freq,
     params_set |-> params_set, sync_path_enable |-> sync_path_enable]

Wm5102Off ==
    [fll1_src |-> "NONE", fll1_fout |-> 0,
     refclk_src |-> "NONE", refclk_fout |-> 0]

Init ==
    /\ card_rate = RPI_CIRRUS_DEFAULT_RATE
    /\ sync_path_enable = FALSE
    /\ fll1_freq = 0
    /\ params_set = {}
    /\ min_rate_idx = 1
    /\ max_rate_idx = 0
    /\ iec958_status = <<0, 0, 0, 0>>
    /\ lock = 0
    /\ link2_rate = RPI_CIRRUS_DEFAULT_RATE
    /\ wm5102 = Wm5102Off
    /\ pc = [t \in Threads |-> "idle"]
    /\ frame = [t \in Threads |-> Frame0]

(* ------------------------------------------------------------------ *)
(* priv->lock                                                          *)
(* ------------------------------------------------------------------ *)
\* mutex_lock() returns only when nobody holds the mutex
MutexAvailable(t) == lock = 0

LockPcs == {"hp_lock", "sb_lock", "sbp_lock", "ev_pmu_lock", "ev_pmd_lock"}

AfterLock(p) ==
    CASE p = "hp_lock" -> "hp_bclk"
      [] p = "sb_lock" -> "sb_prepare"
      [] p = "sbp_lock" -> "sbp_standby"
      [] p = "ev_pmu_lock" -> "ev_pmu"
      [] p = "ev_pmd_lock" -> "ev_pmd"

MutexLock(t) ==
    /\ pc[t] \in LockPcs
    /\ MutexAvailable(t)
    /\ lock' = t
    /\ pc' = [pc EXCEPT ![t] = AfterLock(pc[t])]
    /\ frame' = [frame EXCEPT ![t].before = Snapshot]
    /\ UNCHANGED <<privVars, wm5102>>

(* ------------------------------------------------------------------ *)
(* Helpers issuing codec calls.  r, r1, r2 are the results the codec   *)
(* returns; each helper is given as its return value, its effect on    *)
(* the codec and the calls it issues.                                  *)
(* ------------------------------------------------------------------ *)
\* rpi_cirrus_clear_flls
ClearFllsRet(r1, r2) == IF r1 # 0 THEN r1 ELSE IF r2 # 0 THEN r2 ELSE 0

ClearFllsHw(hw, r1, r2) ==
    [hw EXCEPT
        !.fll1_src = IF r1 = 0 THEN "NONE" ELSE @,
        !.fll1_fout = IF r1 = 0 THEN 0 ELSE @,
        !.refclk_src = IF r2 = 0 THEN "NONE" ELSE @,
        !.refclk_fout = IF r2 = 0 THEN 0 ELSE @]

\* ClearFllsCalls giving up after a failed first call
ClearFllsCallsUntilFailure(r1, r2) ==
    << Call("set_pll", "FLL1", "NONE", 0, 0, r1) >>
    \o (IF r1 # 0 THEN <<>>
        ELSE << Call("set_pll", "FLL1_REFCLK", "NONE", 0, 0, r2) >>)

ClearFllsCalls(r1, r2) ==
    << Call("set_pll", "FLL1", "NONE", 0, 0, r1),
       Call("set_pll", "FLL1_REFCLK", "NONE", 0, 0, r2) >>

\* rpi_cirrus_set_fll
SetFllHw(hw, clk_freq, r) ==
    IF r = 0
    THEN [hw EXCEPT !.fll1_src = "MCLK1", !.fll1_fout = clk_freq]
    ELSE hw

SetFllCalls(clk_freq, r) ==
    << Call("set_pll", "FLL1", "MCLK1", WM8804_CLKOUT_HZ, clk_freq, r) >>

\* rpi_cirrus_set_fll_refclk: the second call is issued only if the first
\* succeeded
SetFllRefclkRet(r1, r2) == IF r1 # 0 THEN r1 ELSE r2

SetFllRefclkHw(hw, clk_freq, r1, r2) ==
    IF r1 # 0 THEN hw
    ELSE [hw EXCEPT
            !.refclk_src = "MCLK1",
            !.refclk_fout = clk_freq,
            !.fll1_src = IF r2 = 0 THEN "AIF2BCLK" ELSE @,
            !.fll1_fout = IF r2 = 0 THEN clk_freq ELSE @]

SetFllRefclkCalls(clk_freq, aif2_freq, r1, r2) ==
    << Call("set_pll", "FLL1_REFCLK", "MCLK1", WM8804_CLKOUT_HZ, clk_freq, r1) >>
    \o (IF r1 # 0 THEN <<>>
        ELSE << Call("set_pll", "FLL1", "AIF2BCLK", aif2_freq, clk_freq, r2) >>)

\* rpi_cirrus_set_wm8804_pll: 256fs; the sysclk call only after the PLL call
\* succeeded
SetWm8804PllRet(r1, r2) == IF r1 # 0 THEN r1 ELSE r2

SetWm8804PllCalls(rate, r1, r2) ==
    << Call("dai_set_pll", "WM8804", "PLL", WM8804_CLKOUT_HZ, rate * 256, r1) >>
    \o (IF r1 # 0 THEN <<>>
        ELSE << Call("dai_set_sysclk", "WM8804", "TX_CLKSRC_PLL", rate * 256, 0, r2) >>)

\* snd_soc_component_set_sysclk(wm5102, SYSCLK, SRC_FLL1, freq, CLOCK_IN)
SetSysclkCalls(freq, r) ==
    << Call("set_sysclk", "SYSCLK", "FLL1", freq, 0, r) >>

(* ------------------------------------------------------------------ *)
(* rpi_cirrus_hw_params                                                *)
(* ------------------------------------------------------------------ *)
HwParamsCall(t) ==
    /\ pc[t] = "idle"
    /\ \E s \in Streams, r \in Rates, w \in Widths :
         frame' = [frame EXCEPT ![t] =
                     [Frame0 EXCEPT !.op = "hw_params", !.stream = s,
                                    !.rate = r, !.width = w,
                                    !.clk_freq = calc_sysclk(r)]]
    /\ pc' = [pc EXCEPT ![t] = "hp_lock"]
    /\ UNCHANGED <<privVars, lock, wm5102>>

HwParamsBclkRatio(t) ==
    /\ pc[t] = "hp_bclk"
    /\ \E r \in Results :
         /\ frame' = [frame EXCEPT
                ![t].ret = r,
                ![t].calls = @ \o << Call("set_bclk_ratio", "I2S", "", 2 * frame[t].width, 0, r) >>]
         /\ pc' = [pc EXCEPT ![t] = IF r # 0 THEN "hp_out" ELSE "hp_tdm"]
    /\ UNCHANGED <<privVars, lock, wm5102>>

\* Wm8804Supports without the 32k limit
Wm8804SupportsAll(rate) == TRUE

\* "WM8804 supports sample rates from 32k only"
Wm8804Supports(rate) == rate >= 32000

HwParamsTdmSlot(t) ==
    /\ pc[t] = "hp_tdm"
    /\ \E r \in Results :
         /\ frame' = [frame EXCEPT
                ![t].ret = r,
                ![t].calls = @ \o << Call("set_tdm_slot", "AIF1", "", 2, frame[t].width, r) >>]
         /\ pc' = [pc EXCEPT ![t] =
                IF r # 0 THEN "hp_out"
                ELSE IF Wm8804Supports(frame[t].rate) THEN "hp_wm8804"
                ELSE "hp_sysclk"]
    /\ UNCHANGED <<privVars, lock, wm5102>>

HwParamsWm8804Pll(t) ==
    /\ pc[t] = "hp_wm8804"
    /\ \E r1 \in Results, r2 \in Results :
         /\ frame' = [frame EXCEPT
                ![t].ret = SetWm8804PllRet(r1, r2),
                ![t].calls = @ \o SetWm8804PllCalls(frame[t].rate, r1, r2)]
         /\ pc' = [pc EXCEPT ![t] =
                IF SetWm8804PllRet(r1, r2) # 0 THEN "hp_out" ELSE "hp_sysclk"]
    /\ UNCHANGED <<privVars, lock, wm5102>>

\* HwParamsNeedsFll re-targeting the FLL only to a higher frequency
HwParamsNeedsFllHigher(freq, clk_freq) == freq > 0 /\ freq < clk_freq

\* HwParamsNeedsFll without the test for the local mode
HwParamsNeedsFllAnyMode(freq, clk_freq) == freq # clk_freq

\* HwParamsNeedsFll never asking for the FLL to be re-targeted
HwParamsNeedsFllNever(freq, clk_freq) == FALSE

\* the FLL is re-targeted only when it runs from MCLK1 at another frequency
HwParamsNeedsFll(freq, clk_freq) == freq > 0 /\ freq # clk_freq

HwParamsSysclk(t) ==
    /\ pc[t] = "hp_sysclk"
    /\ \E r \in Results :
         /\ frame' = [frame EXCEPT
                ![t].ret = r,
                ![t].calls = @ \o SetSysclkCalls(frame[t].clk_freq, r)]
         /\ pc' = [pc EXCEPT ![t] =
                IF r # 0 THEN "hp_out"
                ELSE IF HwParamsNeedsFll(fll1_freq, frame[t].clk_freq) THEN "hp_clear"
                ELSE "hp_commit"]
    /\ UNCHANGED <<privVars, lock, wm5102>>

\* the value hw_params returns when rpi_cirrus_clear_flls or
\* rpi_cirrus_set_fll fails: ret is not assigned on these paths
HwParamsFllFailRet(ret, r) == ret

HwParamsClearFlls(t) ==
    /\ pc[t] = "hp_clear"
    /\ \E r1 \in Results, r2 \in Results :
         /\ frame' = [frame EXCEPT
                ![t].ret = IF ClearFllsRet(r1, r2) # 0
                           THEN HwParamsFllFailRet(@, ClearFllsRet(r1, r2)) ELSE @,
                ![t].calls = @ \o ClearFllsCalls(r1, r2)]
         /\ wm5102' = ClearFllsHw(wm5102, r1, r2)
         /\ pc' = [pc EXCEPT ![t] =
                IF ClearFllsRet(r1, r2) # 0 THEN "hp_out" ELSE "hp_setfll"]
    /\ UNCHANGED <<privVars, lock>>

\* HwParamsSetFll storing the new frequency whatever rpi_cirrus_set_fll returned
HwParamsSetFllStoresAnyway(t) ==
    /\ pc[t] = "hp_setfll"
    /\ \E r \in Results :
         /\ frame' = [frame EXCEPT
                ![t].ret = IF r # 0 THEN HwParamsFllFailRet(@, r) ELSE @,
                ![t].calls = @ \o SetFllCalls(frame[t].clk_freq, r)]
         /\ wm5102' = SetFllHw(wm5102, frame[t].clk_freq, r)
         /\ fll1_freq' = frame[t].clk_freq
         /\ pc' = [pc EXCEPT ![t] = IF r # 0 THEN "hp_out" ELSE "hp_commit"]
    /\ UNCHANGED <<card_rate, sync_path_enable, params_set, min_rate_idx,
                   max_rate_idx, link2_rate, iec958_status, lock>>

HwParamsSetFll(t) ==
    /\ pc[t] = "hp_setfll"
    /\ \E r \in Results :
         /\ frame' = [frame EXCEPT
                ![t].ret = IF r # 0 THEN HwParamsFllFailRet(@, r) ELSE @,
                ![t].calls = @ \o SetFllCalls(frame[t].clk_freq, r)]
         /\ wm5102' = SetFllHw(wm5102, frame[t].clk_freq, r)
         /\ fll1_freq' = IF r # 0 THEN fll1_freq ELSE frame[t].clk_freq
         /\ pc' = [pc EXCEPT ![t] = IF r # 0 THEN "hp_out" ELSE "hp_commit"]
    /\ UNCHANGED <<card_rate, sync_path_enable, params_set, min_rate_idx,
                   max_rate_idx, link2_rate, iec958_status, lock>>

\* priv->card_rate = rate; the dai_link2 rates; the load of params_set |= ...
HwParamsCommit(t) ==
    /\ pc[t] = "hp_commit"
    /\ card_rate' = frame[t].rate
    /\ link2_rate' = frame[t].rate
    /\ frame' = [frame EXCEPT ![t].tmp = params_set]
    /\ pc' = [pc EXCEPT ![t] = "hp_store"]
    /\ UNCHANGED <<sync_path_enable, fll1_freq, params_set, min_rate_idx,
                   max_rate_idx, iec958_status, lock, wm5102>>

\* the store of params_set |= 1 << substream->stream
HwParamsStore(t) ==
    /\ pc[t] = "hp_store"
    /\ params_set' = frame[t].tmp \cup {frame[t].stream}
    /\ pc' = [pc EXCEPT ![t] = "hp_out"]
    /\ UNCHANGED <<card_rate, sync_path_enable, fll1_freq, min_rate_idx,
                   max_rate_idx, link2_rate, iec958_status, lock, wm5102, frame>>

(* ------------------------------------------------------------------ *)
(* rpi_cirrus_hw_free: takes no lock                                   *)
(* ------------------------------------------------------------------ *)
HwFreeCall(t) ==
    /\ pc[t] = "idle"
    /\ \E s \in Streams :
         frame' = [frame EXCEPT ![t] =
                     [Frame0 EXCEPT !.op = "hw_free", !.stream = s]]
    /\ pc' = [pc EXCEPT ![t] = "hf_old"]
    /\ UNCHANGED <<privVars, lock, wm5102>>

\* unsigned int old_params_set = priv->params_set;
HwFreeReadOld(t) ==
    /\ pc[t] = "hf_old"
    /\ frame' = [frame EXCEPT ![t].old_params_set = params_set]
    /\ pc' = [pc EXCEPT ![t] = "hf_load"]
    /\ UNCHANGED <<privVars, lock, wm5102>>

\* priv->params_set &= ~(1 << substream->stream): the load ...
HwFreeLoad(t) ==
    /\ pc[t] = "hf_load"
    /\ frame' = [frame EXCEPT ![t].tmp = params_set \ {frame[t].stream}]
    /\ pc' = [pc EXCEPT ![t] = "hf_store"]
    /\ UNCHANGED <<privVars, lock, wm5102>>

\* HwFreeLastStream without the test of old_params_set
HwFreeLastStreamNoOld(now, old) == now = {}

\* "disable sysclk if this was the last open stream"
HwFreeLastStream(now, old) == now = {} /\ old # {}

\* HwFreeStore marking the FLL as off as well
HwFreeStoreFllOff(t) ==
    /\ pc[t] = "hf_store"
    /\ params_set' = frame[t].tmp
    /\ fll1_freq' = 0
    /\ pc' = [pc EXCEPT ![t] = "hf_test"]
    /\ UNCHANGED <<card_rate, sync_path_enable, min_rate_idx,
                   max_rate_idx, link2_rate, iec958_status, lock, wm5102, frame>>

\* ... and the store, followed by the test of the mask.  The test reads
\* priv->params_set again; without a lock the build may as well reuse the
\* value just stored, so both are possible.
HwFreeStore(t) ==
    /\ pc[t] = "hf_store"
    /\ params_set' = frame[t].tmp
    /\ pc' = [pc EXCEPT ![t] = "hf_test"]
    /\ UNCHANGED <<card_rate, sync_path_enable, fll1_freq, min_rate_idx,
                   max_rate_idx, link2_rate, iec958_status, lock, wm5102, frame>>

HwFreeTest(t) ==
    /\ pc[t] = "hf_test"
    /\ \E now \in {params_set, frame[t].tmp} :
         pc' = [pc EXCEPT ![t] =
                  IF HwFreeLastStream(now, frame[t].old_params_set)
                  THEN "hf_sysclk" ELSE "hf_ret"]
    /\ UNCHANGED <<privVars, lock, wm5102, frame>>

\* the result of set_sysclk is logged only: hw_free returns 0
HwFreeSysclk(t) ==
    /\ pc[t] = "hf_sysclk"
    /\ \E r \in Results :
         /\ frame' = [frame EXCEPT ![t].calls = @ \o SetSysclkCalls(0, r)]
    /\ pc' = [pc EXCEPT ![t] = "hf_ret"]
    /\ UNCHANGED <<privVars, lock, wm5102>>

(* ------------------------------------------------------------------ *)
(* Return to the framework                                             *)
(* ------------------------------------------------------------------ *)
\* positions at which the callback still holds priv->lock and is about to
\* mutex_unlock() and return
\* UnlockPcs with the routing event returning through no mutex_unlock()
UnlockPcsNoEvent == {"hp_out", "sb_unlock", "sbp_unlock"}

UnlockPcs == {"hp_out", "sb_unlock", "sbp_unlock", "ev_out"}
\* positions at which it returns without holding the lock
ReturnPcs == {"hf_ret", "sb_ret", "sbp_ret", "ev_ret", "ctl_ret", "st_ret",
              "fn_ret", "init_ret"}
FinalPcs == UnlockPcs \cup ReturnPcs

Return(t) ==
    /\ pc[t] \in FinalPcs
    /\ lock' = IF pc[t] \in UnlockPcs THEN 0 ELSE lock
    /\ pc' = [pc EXCEPT ![t] = "idle"]
    /\ frame' = [frame EXCEPT ![t] = Frame0]
    /\ UNCHANGED <<privVars, wm5102>>

(* ------------------------------------------------------------------ *)
(* rpi_cirrus_set_bias_level                                           *)
(* ------------------------------------------------------------------ *)
\* BiasForCodec letting every dapm context through
BiasForAnyDev(dev) == TRUE

\* callbacks for other dapm contexts of the card are ignored
BiasForCodec(dev) == dev = "wm5102"

\* PrepareActs without the test of dapm->bias_level
PrepareActsWhenOn(level, bias_level) == level = "PREPARE"

\* PREPARE acts unless the context is already fully on
PrepareActs(level, bias_level) == level = "PREPARE" /\ bias_level # "ON"

SetBiasLevelCall(t) ==
    /\ pc[t] = "idle"
    /\ \E d \in Devs, l \in BiasLevels, b \in BiasLevels :
         /\ frame' = [frame EXCEPT ![t] =
                     [Frame0 EXCEPT !.op = "set_bias_level", !.dev = d,
                                    !.level = l, !.bias_level = b]]
         /\ pc' = [pc EXCEPT ![t] =
                IF BiasForCodec(d) /\ PrepareActs(l, b) THEN "sb_lock" ELSE "sb_ret"]
    /\ UNCHANGED <<privVars, lock, wm5102>>

\* PrepareSetsFll without the test of sync_path_enable
PrepareSetsFllAlways(sync) == TRUE

\* the local FLL is (re)started unless the S/PDIF sync path owns FLL1
PrepareSetsFll(sync) == ~sync

SetBiasLevelPrepare(t) ==
    /\ pc[t] = "sb_prepare"
    /\ IF PrepareSetsFll(sync_path_enable)
       THEN /\ frame' = [frame EXCEPT ![t].clk_freq = calc_sysclk(card_rate)]
            /\ pc' = [pc EXCEPT ![t] = "sb_setfll"]
       ELSE /\ pc' = [pc EXCEPT ![t] = "sb_unlock"]
            /\ UNCHANGED frame
    /\ UNCHANGED <<privVars, lock, wm5102>>

\* what set_bias_level returns after rpi_cirrus_set_fll returned r
SetBiasLevelRet(r) == r

SetBiasLevelSetFll(t) ==
    /\ pc[t] = "sb_setfll"
    /\ \E r \in Results :
         /\ frame' = [frame EXCEPT
                ![t].ret = SetBiasLevelRet(r),
                ![t].calls = @ \o SetFllCalls(frame[t].clk_freq, r)]
         /\ wm5102' = SetFllHw(wm5102, frame[t].clk_freq, r)
         /\ fll1_freq' = IF r # 0 THEN fll1_freq ELSE frame[t].clk_freq
    /\ pc' = [pc EXCEPT ![t] = "sb_unlock"]
    /\ UNCHANGED <<card_rate, sync_path_enable, params_set, min_rate_idx,
                   max_rate_idx, link2_rate, iec958_status, lock>>

(* ------------------------------------------------------------------ *)
(* rpi_cirrus_set_bias_level_post                                      *)
(* ------------------------------------------------------------------ *)
SetBiasLevelPostCall(t) ==
    /\ pc[t] = "idle"
    /\ \E d \in Devs, l \in BiasLevels :
         /\ frame' = [frame EXCEPT ![t] =
                     [Frame0 EXCEPT !.op = "set_bias_level_post", !.dev = d,
                                    !.level = l]]
         /\ pc' = [pc EXCEPT ![t] =
                IF BiasForCodec(d) /\ l = "STANDBY" THEN "sbp_lock" ELSE "sbp_ret"]
    /\ UNCHANGED <<privVars, lock, wm5102>>

\* fll1_freq after STANDBY's rpi_cirrus_clear_flls returned ret
StandbyFll1Freq(freq, ret) == IF ret # 0 THEN freq ELSE 0

\* SetBiasLevelPostRet handing the result of rpi_cirrus_clear_flls on
SetBiasLevelPostRetPropagates(ret) == ret

\* set_bias_level_post returns 0 whatever rpi_cirrus_clear_flls returned
SetBiasLevelPostRet(ret) == 0

SetBiasLevelPostStandby(t) ==
    /\ pc[t] = "sbp_standby"
    /\ \E r1 \in Results, r2 \in Results :
         /\ frame' = [frame EXCEPT
                ![t].ret = SetBiasLevelPostRet(ClearFllsRet(r1, r2)),
                ![t].calls = @ \o ClearFllsCalls(r1, r2)]
         /\ wm5102' = ClearFllsHw(wm5102, r1, r2)
         /\ fll1_freq' = StandbyFll1Freq(fll1_freq, ClearFllsRet(r1, r2))
    /\ pc' = [pc EXCEPT ![t] = "sbp_unlock"]
    /\ UNCHANGED <<card_rate, sync_path_enable, params_set, min_rate_idx,
                   max_rate_idx, link2_rate, iec958_status, lock>>

(* ------------------------------------------------------------------ *)
(* rpi_cirrus_spdif_rx_enable_event                                    *)
(* ------------------------------------------------------------------ *)
SpdifRxEventCall(t) ==
    /\ pc[t] = "idle"
    /\ \E e \in Events :
         /\ frame' = [frame EXCEPT ![t] =
                     [Frame0 EXCEPT !.op = "spdif_rx_enable_event", !.event = e]]
         /\ pc' = [pc EXCEPT ![t] =
                CASE e = "POST_PMU" -> "ev_pmu_lock"
                  [] e = "POST_PMD" -> "ev_pmd_lock"
                  [] OTHER -> "ev_ret"]
    /\ UNCHANGED <<privVars, lock, wm5102>>

\* POST_PMU: clk_freq, aif2_freq, then rpi_cirrus_clear_flls
SpdifRxPmuClearFlls(t) ==
    /\ pc[t] = "ev_pmu"
    /\ \E r1 \in Results, r2 \in Results :
         /\ frame' = [frame EXCEPT
                ![t].clk_freq = calc_sysclk(card_rate),
                ![t].aif2_freq = 64 * card_rate,
                ![t].ret = ClearFllsRet(r1, r2),
                ![t].calls = @ \o ClearFllsCalls(r1, r2)]
         /\ wm5102' = ClearFllsHw(wm5102, r1, r2)
         /\ pc' = [pc EXCEPT ![t] =
                IF ClearFllsRet(r1, r2) # 0 THEN "ev_out" ELSE "ev_refclk"]
    /\ UNCHANGED <<privVars, lock>>

\* SyncFll1Freq recording the frequency with the sign of the local mode
SyncFll1FreqPositive(clk_freq) == clk_freq

\* "set to negative to indicate we're doing spdif rx"
SyncFll1Freq(clk_freq) == 0 - clk_freq

SpdifRxPmuSetFllRefclk(t) ==
    /\ pc[t] = "ev_refclk"
    /\ \E r1 \in Results, r2 \in Results :
         /\ frame' = [frame EXCEPT
                ![t].ret = SetFllRefclkRet(r1, r2),
                ![t].calls = @ \o SetFllRefclkCalls(frame[t].clk_freq,
                                                    frame[t].aif2_freq, r1, r2)]
         /\ wm5102' = SetFllRefclkHw(wm5102, frame[t].clk_freq, r1, r2)
         /\ IF SetFllRefclkRet(r1, r2) # 0
            THEN UNCHANGED <<fll1_freq, sync_path_enable>>
            ELSE /\ fll1_freq' = SyncFll1Freq(frame[t].clk_freq)
                 /\ sync_path_enable' = TRUE
    /\ pc' = [pc EXCEPT ![t] = "ev_out"]
    /\ UNCHANGED <<card_rate, params_set, min_rate_idx, max_rate_idx,
                   link2_rate, iec958_status, lock>>

\* SpdifRxPmd marking the FLL as off as well
SpdifRxPmdFllOff(t) ==
    /\ pc[t] = "ev_pmd"
    /\ sync_path_enable' = FALSE
    /\ fll1_freq' = 0
    /\ pc' = [pc EXCEPT ![t] = "ev_out"]
    /\ UNCHANGED <<card_rate, params_set, min_rate_idx,
                   max_rate_idx, link2_rate, iec958_status, lock, wm5102, frame>>

SpdifRxPmd(t) ==
    /\ pc[t] = "ev_pmd"
    /\ sync_path_enable' = FALSE
    /\ pc' = [pc EXCEPT ![t] = "ev_out"]
    /\ UNCHANGED <<card_rate, fll1_freq, params_set, min_rate_idx,
                   max_rate_idx, link2_rate, iec958_status, lock, wm5102, frame>>

(* ------------------------------------------------------------------ *)
(* The rate controls and rpi_cirrus_startup                            *)
(* ------------------------------------------------------------------ *)
\* min_rates[].value and max_rates[].value, indexed from 0
min_rates == <<0, 32000, 44100>>
max_rates == <<0, 48000, 96000>>

\* what a read behind the end of a three-entry table may yield
BeyondTable == {0, 1}

\* enumerated.item[0] of a control write is a user-supplied unsigned int
Items == 0..MaxItem

\* RatePutIdx keeping the stored index inside the three-entry table
RatePutIdxClamped(item) == IF item > 2 THEN 2 ELSE item

\* the index min_rate_put / max_rate_put stores for a written item
RatePutIdx(item) == item

\* the index stored when the control returns; idx_changed and idx_was_item
\* keep for the properties whether it differs from the index stored before
\* and whether that index was the written item
RatePutNewIdx(idx, item) == IF idx # item THEN RatePutIdx(item) ELSE idx

\* rpi_cirrus_min_rate_put
MinRatePut(t) ==
    /\ pc[t] = "idle"
    /\ \E i \in Items :
         /\ frame' = [frame EXCEPT ![t] =
                [Frame0 EXCEPT !.op = "min_rate_put", !.item = i,
                               !.idx_changed =
                                   RatePutNewIdx(min_rate_idx, i) # min_rate_idx,
                               !.idx_was_item = (min_rate_idx = i),
                               !.ret = IF min_rate_idx # i THEN 1 ELSE 0]]
         /\ min_rate_idx' = RatePutNewIdx(min_rate_idx, i)
    /\ pc' = [pc EXCEPT ![t] = "ctl_ret"]
    /\ UNCHANGED <<card_rate, sync_path_enable, fll1_freq, params_set,
                   max_rate_idx, link2_rate, iec958_status, lock, wm5102>>

\* rpi_cirrus_max_rate_put
MaxRatePut(t) ==
    /\ pc[t] = "idle"
    /\ \E i \in Items :
         /\ frame' = [frame EXCEPT ![t] =
                [Frame0 EXCEPT !.op = "max_rate_put", !.item = i,
                               !.idx_changed =
                                   RatePutNewIdx(max_rate_idx, i) # max_rate_idx,
                               !.idx_was_item = (max_rate_idx = i),
                               !.ret = IF max_rate_idx # i THEN 1 ELSE 0]]
         /\ max_rate_idx' = RatePutNewIdx(max_rate_idx, i)
    /\ pc' = [pc EXCEPT ![t] = "ctl_ret"]
    /\ UNCHANGED <<card_rate, sync_path_enable, fll1_freq, params_set,
                   min_rate_idx, link2_rate, iec958_status, lock, wm5102>>

\* table[idx].value; an index past the table reads whatever lies behind it
TableValues(table, idx) ==
    IF idx < Len(table) THEN {table[idx + 1]} ELSE BeyondTable

\* StartupCalls handing max_rate on as it is
StartupCallsMaxAsIs(min_rate, max_rate) ==
    IF min_rate # 0 \/ max_rate # 0
    THEN << Call("hw_constraint_minmax", "RATE", "", min_rate, max_rate, 0) >>
    ELSE <<>>

\* the rate window rpi_cirrus_startup applies: none when both are 0, else
\* snd_pcm_hw_constraint_minmax(RATE, min_rate, max_rate or UINT_MAX)
StartupCalls(min_rate, max_rate) ==
    IF min_rate # 0 \/ max_rate # 0
    THEN << Call("hw_constraint_minmax", "RATE", "", min_rate,
                 IF max_rate = 0 THEN UINT_MAX ELSE max_rate, 0) >>
    ELSE <<>>

Startup(t) ==
    /\ pc[t] = "idle"
    /\ \E lo \in TableValues(min_rates, min_rate_idx),
          hi \in TableValues(max_rates, max_rate_idx) :
         frame' = [frame EXCEPT ![t] =
                [Frame0 EXCEPT !.op = "startup", !.min_rate = lo, !.max_rate = hi,
                               !.calls = StartupCalls(lo, hi)]]
    /\ pc' = [pc EXCEPT ![t] = "st_ret"]
    /\ UNCHANGED <<privVars, lock, wm5102>>

(* ------------------------------------------------------------------ *)
(* The IEC958 channel-status control of the WM8804                     *)
(* ------------------------------------------------------------------ *)
\* a & b on unsigned values, bit by bit
RECURSIVE BitAnd(_, _)
BitAnd(a, b) ==
    IF a = 0 \/ b = 0 THEN 0
    ELSE (IF a % 2 = 1 /\ b % 2 = 1 THEN 1 ELSE 0) + 2 * BitAnd(a \div 2, b \div 2)

\* values of one channel-status byte: none, the low six bits, bit 6 alone,
\* all bits
ByteVals == {0, 63, 64, 255}

\* StatusMask with byte 3 masked like the others
StatusMaskAllBits(i) == 255

\* mask = (i == 3) ? 0x3f : 0xff
StatusMask(i) == IF i = 3 THEN 63 ELSE 255

\* the register of channel-status byte i: WM8804_SPDTX1 + i
SpdtxReg(i) ==
    CASE i = 0 -> "WM8804_SPDTX1" [] i = 1 -> "WM8804_SPDTX2"
      [] i = 2 -> "WM8804_SPDTX3" [] i = 3 -> "WM8804_SPDTX4"

\* (ctrl_stat[i] & mask) != (stat[i] & mask); C index i is position i + 1
StatusDiffers(ctrl_stat, stat, i) ==
    BitAnd(ctrl_stat[i + 1], StatusMask(i)) # BitAnd(stat[i + 1], StatusMask(i))

\* stat[] after the loop
StatusAfterPut(ctrl_stat, stat) ==
    [k \in 1..4 |->
        IF StatusDiffers(ctrl_stat, stat, k - 1)
        THEN BitAnd(ctrl_stat[k], StatusMask(k - 1))
        ELSE stat[k]]

\* the snd_soc_component_update_bits calls of the loop from byte i on
RECURSIVE StatusPutCalls(_, _, _)
StatusPutCalls(ctrl_stat, stat, i) ==
    IF i > 3 THEN <<>>
    ELSE (IF StatusDiffers(ctrl_stat, stat, i)
          THEN << Call("update_bits", SpdtxReg(i), "", StatusMask(i),
                       BitAnd(ctrl_stat[i + 1], StatusMask(i)), 0) >>
          ELSE <<>>)
         \o StatusPutCalls(ctrl_stat, stat, i + 1)

\* rpi_cirrus_spdif_playback_put
SpdifPlaybackPut(t) ==
    /\ pc[t] = "idle"
    /\ \E ctrl_stat \in [1..4 -> ByteVals] :
         /\ frame' = [frame EXCEPT ![t] =
                [Frame0 EXCEPT
                    !.op = "spdif_playback_put",
                    !.status = ctrl_stat,
                    !.old_status = iec958_status,
                    !.ret = IF \E i \in 0..3 :
                                 StatusDiffers(ctrl_stat, iec958_status, i)
                            THEN 1 ELSE 0,
                    !.calls = StatusPutCalls(ctrl_stat, iec958_status, 0)]]
         /\ iec958_status' = StatusAfterPut(ctrl_stat, iec958_status)
    /\ pc' = [pc EXCEPT ![t] = "ctl_ret"]
    /\ UNCHANGED <<card_rate, sync_path_enable, fll1_freq, params_set,
                   min_rate_idx, max_rate_idx, link2_rate, lock, wm5102>>

\* rpi_cirrus_init_wm8804: the cache is loaded from the four registers as
\* the chip holds them; then the clock divider, CLKOUT and the PLL are set up
InitWm8804Ret(r1, r3, r4) ==
    IF r1 # 0 THEN r1 ELSE SetWm8804PllRet(r3, r4)

InitWm8804Calls(r1, r2, r3, r4) ==
    << Call("dai_set_clkdiv", "WM8804", "MCLK_DIV", 256, 0, r1) >>
    \o (IF r1 # 0 THEN <<>>
        ELSE << Call("dai_set_sysclk", "WM8804", "CLKOUT_SRC_OSCCLK",
                     WM8804_CLKOUT_HZ, 0, r2) >>
             \o SetWm8804PllCalls(RPI_CIRRUS_DEFAULT_RATE, r3, r4))

InitWm8804(t) ==
    /\ pc[t] = "idle"
    /\ \E val \in [1..4 -> ByteVals] :
         iec958_status' = [k \in 1..4 |-> BitAnd(val[k], StatusMask(k - 1))]
    /\ \E r1 \in Results, r2 \in Results, r3 \in Results, r4 \in Results :
         frame' = [frame EXCEPT ![t] =
                [Frame0 EXCEPT !.op = "init_wm8804",
                               !.ret = InitWm8804Ret(r1, r3, r4),
                               !.calls = InitWm8804Calls(r1, r2, r3, r4)]]
    /\ pc' = [pc EXCEPT ![t] = "init_ret"]
    /\ UNCHANGED <<card_rate, sync_path_enable, fll1_freq, params_set,
                   min_rate_idx, max_rate_idx, link2_rate, lock, wm5102>>

\* the channel-status control written from one control client at a time
NextSpdif ==
    \/ InitWm8804(1)
    \/ SpdifPlaybackPut(1)
    \/ Return(1)

SpecSpdif == Init /\ [][NextSpdif]_vars

(* ------------------------------------------------------------------ *)
(* calc_sysclk applied on its own                                      *)
(* ------------------------------------------------------------------ *)
\* the sample rates of the two families and every rate up to MaxCalcRate
CalcRates ==
    (0..MaxCalcRate) \cup {11025, 16000, 22050, 32000, 44100, 48000, 64000,
                           88200, 96000, 176400, 192000}

CalcSysclk(t) ==
    /\ pc[t] = "idle"
    /\ \E r \in CalcRates :
         frame' = [frame EXCEPT ![t] =
                     [Frame0 EXCEPT !.op = "calc_sysclk", !.rate = r,
                                    !.clk_freq = calc_sysclk(r)]]
    /\ pc' = [pc EXCEPT ![t] = "fn_ret"]
    /\ UNCHANGED <<privVars, lock, wm5102>>

NextCalc == CalcSysclk(1) \/ Return(1)

SpecCalc == Init /\ [][NextCalc]_vars

Step(t) ==
        \/ MutexLock(t)
        \/ HwParamsCall(t)
        \/ HwParamsBclkRatio(t)
        \/ HwParamsTdmSlot(t)
        \/ HwParamsWm8804Pll(t)
        \/ HwParamsSysclk(t)
        \/ HwParamsClearFlls(t)
        \/ HwParamsSetFll(t)
        \/ HwParamsCommit(t)
        \/ HwParamsStore(t)
        \/ HwFreeCall(t)
        \/ HwFreeReadOld(t)
        \/ HwFreeLoad(t)
        \/ HwFreeStore(t)
        \/ HwFreeTest(t)
        \/ HwFreeSysclk(t)
        \/ SetBiasLevelCall(t)
        \/ SetBiasLevelPrepare(t)
        \/ SetBiasLevelSetFll(t)
        \/ SetBiasLevelPostCall(t)
        \/ SetBiasLevelPostStandby(t)
        \/ SpdifRxEventCall(t)
        \/ SpdifRxPmuClearFlls(t)
        \/ SpdifRxPmuSetFllRefclk(t)
        \/ SpdifRxPmd(t)
        \/ Return(t)

\* the callbacks invoked one at a time, each running to its return
Next == Step(1)

Spec == Init /\ [][Next]_vars

\* the control surface and stream open, from any thread
NextCtl ==
    \E t \in Threads :
        \/ MinRatePut(t)
        \/ MaxRatePut(t)
        \/ Startup(t)
        \/ Return(t)

SpecCtl == Init /\ [][NextCtl]_vars

\* the controls written and the stream opened one call at a time
NextCtlSeq ==
    \/ MinRatePut(1)
    \/ MaxRatePut(1)
    \/ Startup(1)
    \/ Return(1)

SpecCtlSeq == Init /\ [][NextCtlSeq]_vars

\* The callbacks invoked concurrently, in an environment in which the codec
\* calls succeed, the stream has one sample width and the two sysclk
\* families, and the bias callbacks concern the codec's own dapm context.
ConcEnv ==
    \A t \in Threads :
        /\ \A i \in DOMAIN frame[t].calls : frame[t].calls[i].res = 0
        /\ frame[t].rate \in {0, 44100, 48000}
        /\ frame[t].width \in {0, 16}
        /\ frame[t].dev = "wm5102"
        /\ frame[t].level \in {"OFF", "PREPARE", "STANDBY"}
        /\ frame[t].bias_level = "OFF"
        /\ frame[t].event \in {"OTHER", "POST_PMU", "POST_PMD"}

NextConc ==
    \E t \in Threads :
        \/ MutexLock(t) /\ ConcEnv'
        \/ HwParamsCall(t) /\ ConcEnv'
        \/ HwParamsBclkRatio(t) /\ ConcEnv'
        \/ HwParamsTdmSlot(t) /\ ConcEnv'
        \/ HwParamsWm8804Pll(t) /\ ConcEnv'
        \/ HwParamsSysclk(t) /\ ConcEnv'
        \/ HwParamsClearFlls(t) /\ ConcEnv'
        \/ HwParamsSetFll(t) /\ ConcEnv'
        \/ HwParamsCommit(t) /\ ConcEnv'
        \/ HwParamsStore(t) /\ ConcEnv'
        \/ HwFreeCall(t) /\ ConcEnv'
        \/ HwFreeReadOld(t) /\ ConcEnv'
        \/ HwFreeLoad(t) /\ ConcEnv'
        \/ HwFreeStore(t) /\ ConcEnv'
        \/ HwFreeTest(t) /\ ConcEnv'
        \/ HwFreeSysclk(t) /\ ConcEnv'
        \/ SetBiasLevelCall(t) /\ ConcEnv'
        \/ SetBiasLevelPrepare(t) /\ ConcEnv'
        \/ SetBiasLevelSetFll(t) /\ ConcEnv'
        \/ SetBiasLevelPostCall(t) /\ ConcEnv'
        \/ SetBiasLevelPostStandby(t) /\ ConcEnv'
        \/ SpdifRxEventCall(t) /\ ConcEnv'
        \/ SpdifRxPmuClearFlls(t) /\ ConcEnv'
        \/ SpdifRxPmuSetFllRefclk(t) /\ ConcEnv'
        \/ SpdifRxPmd(t) /\ ConcEnv'
        \/ Return(t) /\ ConcEnv'

SpecConc == Init /\ [][NextConc]_vars

\* The entry points that take priv->lock, invoked concurrently for one
\* playback stream of one sample width, the codec calls failing or not.
LiveEnv ==
    \A t \in Threads :
        /\ frame[t].rate \in {0, 44100, 48000}
        /\ frame[t].width \in {0, 16}
        /\ frame[t].stream = 0
        /\ frame[t].dev = "wm5102"
        /\ frame[t].level \in {"OFF", "PREPARE", "STANDBY"}
        /\ frame[t].bias_level = "OFF"
        /\ frame[t].event \in {"OTHER", "POST_PMU", "POST_PMD"}

\* the steps a callback takes by itself once it has been invoked
LiveProgress(t) ==
    \/ HwParamsBclkRatio(t)
    \/ HwParamsTdmSlot(t)
    \/ HwParamsWm8804Pll(t)
    \/ HwParamsSysclk(t)
    \/ HwParamsClearFlls(t)
    \/ HwParamsSetFll(t)
    \/ HwParamsCommit(t)
    \/ HwParamsStore(t)
    \/ SetBiasLevelPrepare(t)
    \/ SetBiasLevelSetFll(t)
    \/ SetBiasLevelPostStandby(t)
    \/ SpdifRxPmuClearFlls(t)
    \/ SpdifRxPmuSetFllRefclk(t)
    \/ SpdifRxPmd(t)
    \/ Return(t)

NextLive ==
    \E t \in Threads :
        \/ HwParamsCall(t) /\ LiveEnv'
        \/ SetBiasLevelCall(t) /\ LiveEnv'
        \/ SetBiasLevelPostCall(t) /\ LiveEnv'
        \/ SpdifRxEventCall(t) /\ LiveEnv'
        \/ MutexLock(t)
        \/ LiveProgress(t)

\* a running callback keeps running; a callback waiting in mutex_lock() gets
\* the mutex if it is free again and again
LiveFairness ==
    \A t \in Threads : WF_vars(LiveProgress(t)) /\ SF_vars(MutexLock(t))

SpecLive == Init /\ [][NextLive]_vars /\ LiveFairness

(* ------------------------------------------------------------------ *)
(* Properties                                                          *)
(* ------------------------------------------------------------------ *)
AnyFailed(calls) == \E i \in DOMAIN calls : calls[i].res # 0

\* both sub-calls of rpi_cirrus_clear_flls, succeeded, at calls[j], calls[j+1]
ClearedAt(calls, j) ==
    /\ j + 1 <= Len(calls)
    /\ calls[j] = Call("set_pll", "FLL1", "NONE", 0, 0, 0)
    /\ calls[j + 1] = Call("set_pll", "FLL1_REFCLK", "NONE", 0, 0, 0)

\* a command that starts FLL1, from MCLK1 or from the AIF2 bit clock
IsEnable(c) == c.fn = "set_pll" /\ c.id = "FLL1" /\ c.src \in {"MCLK1", "AIF2BCLK"}

SysclkZeroCalls(calls) ==
    Cardinality({i \in DOMAIN calls : calls[i].fn = "set_sysclk" /\ calls[i].a = 0})

Abs(x) == IF x < 0 THEN 0 - x ELSE x

\* no callback is in the middle of its work
Quiescent == \A t \in Threads : pc[t] \in {"idle"} \cup FinalPcs

\* positions between a callback's first and its last access to ClockState
TransitionPcs ==
    {"hp_bclk", "hp_tdm", "hp_wm8804", "hp_sysclk", "hp_clear", "hp_setfll",
     "hp_commit", "hp_store", "hp_out",
     "sb_prepare", "sb_setfll", "sb_unlock", "sbp_standby", "sbp_unlock",
     "ev_pmu", "ev_refclk", "ev_pmd", "ev_out",
     "hf_load", "hf_store", "hf_test"}

\* C1: in every reachable state, sync_path_enable being true implies
\* fll1_freq <= 0.
C1_SyncImpliesNotLocal == sync_path_enable => fll1_freq <= 0

\* a PREPARE ran under the lock while the sync path owned FLL1
C1_Witness ==
    /\ sync_path_enable
    /\ fll1_freq < 0
    /\ \E t \in Threads : frame[t].op = "set_bias_level" /\ pc[t] = "sb_unlock"

\* C2 (as claimed): every callback that reads or writes ClockState holds
\* priv->lock for its whole transition, so no two transitions interleave: a
\* hw_free between its first read and its test of params_set never runs
\* beside another callback's transition.
C2_NoInterleaving ==
    \A t, u \in Threads :
        t # u => ~(pc[t] \in TransitionPcs /\ pc[u] \in TransitionPcs)

\* C3: hw_free sets the system clock to 0 exactly once when it takes the
\* mask of open streams from non-empty to empty, and not at all otherwise
\* (closing one of two open streams, or closing with the mask already empty).
C3_SysclkOffOnLastClose ==
    \A t \in Threads :
        (frame[t].op = "hw_free" /\ pc[t] = "hf_ret") =>
            /\ params_set = frame[t].old_params_set \ {frame[t].stream}
            /\ SysclkZeroCalls(frame[t].calls) =
                 IF frame[t].old_params_set # {} /\ params_set = {} THEN 1 ELSE 0
            /\ Len(frame[t].calls) = SysclkZeroCalls(frame[t].calls)

\* the capture stream, the last one open, was closed and the clock turned off
C3_Witness ==
    \E t \in Threads :
        /\ frame[t].op = "hw_free" /\ pc[t] = "hf_ret"
        /\ frame[t].stream = 1
        /\ frame[t].old_params_set = {1}
        /\ params_set = {}
        /\ SysclkZeroCalls(frame[t].calls) = 1

\* C4 (as claimed): a callback that starts FLL1 while fll1_freq is not 0 has
\* before that, in the same invocation, cleared both FLLs with success; hence
\* the codec never runs FLL1 from MCLK1 while the FLL1 reference clock is
\* still armed.  Stated so that only a state in which the rule and its
\* consequence fail together violates it.
C4_ClearBeforeEnable ==
    \/ \A t \in Threads : \A i \in DOMAIN frame[t].calls :
         (IsEnable(frame[t].calls[i]) /\ frame[t].before.fll1_freq # 0) =>
             \E j \in 1..(i - 2) : ClearedAt(frame[t].calls, j)
    \/ ~(wm5102.fll1_src = "MCLK1" /\ wm5102.refclk_src # "NONE")

\* C5 (as claimed): a callback whose clear() succeeded in both sub-calls, and
\* that started no FLL afterwards, returns with fll1_freq = 0; and a callback
\* that took fll1_freq to 0 had both sub-calls of a clear() succeed.
C5_ClearMeansOff ==
    \A t \in Threads :
        pc[t] \in FinalPcs =>
            /\ (\E j \in DOMAIN frame[t].calls :
                    /\ ClearedAt(frame[t].calls, j)
                    /\ \A i \in (j + 2)..Len(frame[t].calls) :
                          ~(IsEnable(frame[t].calls[i]) /\ frame[t].calls[i].res = 0))
                => fll1_freq = 0
            /\ (fll1_freq = 0 /\ frame[t].before.fll1_freq # 0)
                => \E j \in DOMAIN frame[t].calls : ClearedAt(frame[t].calls, j)

\* C6 (as claimed): a PREPARE that finds the controller LOCAL at
\* calc_sysclk(card_rate) issues no codec call.
C6_PrepareIdempotent ==
    \A t \in Threads :
        (/\ frame[t].op = "set_bias_level"
         /\ pc[t] = "sb_unlock"
         /\ frame[t].before.fll1_freq > 0
         /\ frame[t].before.fll1_freq = calc_sysclk(card_rate))
        => frame[t].calls = <<>>

\* C6 (amended): set_bias_level issues no codec call when the callback is
\* not a PREPARE of the codec's context, when that context is already ON or
\* when sync_path_enable is set; otherwise it issues exactly one command,
\* FLL1 from MCLK1 at calc_sysclk(card_rate), whatever fll1_freq was.
C6_PrepareCalls ==
    \A t \in Threads :
        (frame[t].op = "set_bias_level" /\ pc[t] \in {"sb_unlock", "sb_ret"}) =>
            IF /\ frame[t].dev = "wm5102"
               /\ frame[t].level = "PREPARE"
               /\ frame[t].bias_level # "ON"
               /\ ~sync_path_enable
            THEN /\ pc[t] = "sb_unlock"
                 /\ Len(frame[t].calls) = 1
                 /\ \E r \in Results :
                      frame[t].calls[1] =
                        Call("set_pll", "FLL1", "MCLK1", WM8804_CLKOUT_HZ,
                             calc_sysclk(card_rate), r)
            ELSE frame[t].calls = <<>>

\* a PREPARE found FLL1 already LOCAL at the target and set it again
C6_Witness ==
    \E t \in Threads :
        /\ frame[t].op = "set_bias_level" /\ pc[t] = "sb_unlock"
        /\ frame[t].before.fll1_freq = calc_sysclk(card_rate)
        /\ Len(frame[t].calls) = 1
        /\ frame[t].calls[1].res = 0

\* C7 (as claimed): hw_params returns non-zero whenever one of its codec
\* calls failed.
C7_HwParamsFailureSurfaced ==
    \A t \in Threads :
        (frame[t].op = "hw_params" /\ pc[t] = "hp_out" /\ AnyFailed(frame[t].calls))
        => frame[t].ret # 0

\* C8 (as claimed): the bias callbacks and the routing event return 0 even
\* when their PLL commands failed.
C8_TransitionsReturnZero ==
    \A t \in Threads :
        (/\ frame[t].op \in {"set_bias_level", "set_bias_level_post",
                              "spdif_rx_enable_event"}
         /\ pc[t] \in FinalPcs)
        => frame[t].ret = 0

\* C8 (amended): set_bias_level_post returns 0 also when clear() failed;
\* set_bias_level and the routing event return non-zero exactly when one of
\* their PLL commands failed.
C8_TransitionReturns ==
    \A t \in Threads :
        pc[t] \in FinalPcs =>
            /\ frame[t].op = "set_bias_level_post" => frame[t].ret = 0
            /\ frame[t].op \in {"set_bias_level", "spdif_rx_enable_event"} =>
                 (frame[t].ret # 0 <=> AnyFailed(frame[t].calls))

\* STANDBY's clear() failed and the callback is about to return 0
C8_Witness ==
    \E t \in Threads :
        /\ frame[t].op = "set_bias_level_post" /\ pc[t] = "sbp_unlock"
        /\ AnyFailed(frame[t].calls)
        /\ frame[t].ret = 0

\* C9 (as claimed): between callbacks, a non-zero fll1_freq means that the
\* codec runs FLL1 at |fll1_freq|, from MCLK1 if positive and from the AIF2
\* bit clock if negative.
C9_StateReflectsCodec ==
    (Quiescent /\ fll1_freq # 0) =>
        /\ wm5102.fll1_fout = Abs(fll1_freq)
        /\ wm5102.fll1_src = IF fll1_freq > 0 THEN "MCLK1" ELSE "AIF2BCLK"

\* C10 (as claimed): min_rate_idx and max_rate_idx are always indices of
\* their three-entry tables.
C10_IndicesInRange ==
    /\ min_rate_idx \in 0..(NUM_MIN_RATES - 1)
    /\ max_rate_idx \in 0..(NUM_MAX_RATES - 1)

\* the commands a callback sent to the FLLs of the WM5102, in order
PllCalls(calls) == SelectSeq(calls, LAMBDA c : c.fn = "set_pll")

\* FLL1 started from MCLK1 at frequency f, with success
EnableLocal(f) == Call("set_pll", "FLL1", "MCLK1", WM8804_CLKOUT_HZ, f, 0)

\* hw_params of thread t has run to its end with every call succeeding
HwParamsDone(t, stream, rate) ==
    /\ frame[t].op = "hw_params" /\ pc[t] = "hp_out"
    /\ frame[t].stream = stream /\ frame[t].rate = rate
    /\ ~AnyFailed(frame[t].calls)

\* the ClockState fields a callback found when it took the lock
Found(t, rate, freq, open, sync) ==
    frame[t].before = [card_rate |-> rate, fll1_freq |-> freq,
                       params_set |-> open, sync_path_enable |-> sync]

\* C11 (as claimed): from the initial state, a successful hw_params for
\* playback at 44100 Hz has issued enable_local(45158400) and left
\* card_rate = 44100; a following successful hw_params at 48000 Hz with the
\* stream still open has issued clear() and then enable_local(49152000) and
\* ends LOCAL(49152000) with card_rate = 48000.
C11_HwParamsScenario ==
    \A t \in Threads :
        /\ (HwParamsDone(t, 0, 44100) /\ Found(t, RPI_CIRRUS_DEFAULT_RATE, 0, {}, FALSE))
            => /\ PllCalls(frame[t].calls) = << EnableLocal(45158400) >>
               /\ card_rate = 44100
               /\ fll1_freq = 45158400
        /\ (HwParamsDone(t, 0, 48000) /\ Found(t, 44100, 45158400, {0}, FALSE))
            => /\ PllCalls(frame[t].calls) =
                    ClearFllsCalls(0, 0) \o << EnableLocal(49152000) >>
               /\ card_rate = 48000
               /\ fll1_freq = 49152000

\* C11 (amended): from the initial state a successful hw_params for playback
\* at 44100 Hz issues no PLL command, leaves the FLL off and sets
\* card_rate = 44100; the PREPARE bias transition that follows issues
\* enable_local(45158400); a following successful hw_params at 48000 Hz with
\* the stream still open issues clear() and then enable_local(49152000) and
\* ends LOCAL(49152000) with card_rate = 48000.
C11_OpenPrepareSwitch ==
    \A t \in Threads :
        /\ (HwParamsDone(t, 0, 44100) /\ Found(t, RPI_CIRRUS_DEFAULT_RATE, 0, {}, FALSE))
            => /\ PllCalls(frame[t].calls) = <<>>
               /\ Snapshot = [card_rate |-> 44100, fll1_freq |-> 0,
                              params_set |-> {0}, sync_path_enable |-> FALSE]
        /\ (/\ frame[t].op = "set_bias_level" /\ pc[t] = "sb_unlock"
            /\ ~AnyFailed(frame[t].calls)
            /\ Found(t, 44100, 0, {0}, FALSE))
            => /\ frame[t].calls = << EnableLocal(45158400) >>
               /\ Snapshot = [card_rate |-> 44100, fll1_freq |-> 45158400,
                              params_set |-> {0}, sync_path_enable |-> FALSE]
        /\ (HwParamsDone(t, 0, 48000) /\ Found(t, 44100, 45158400, {0}, FALSE))
            => /\ PllCalls(frame[t].calls) =
                    ClearFllsCalls(0, 0) \o << EnableLocal(49152000) >>
               /\ Snapshot = [card_rate |-> 48000, fll1_freq |-> 49152000,
                              params_set |-> {0}, sync_path_enable |-> FALSE]
               /\ wm5102.fll1_src = "MCLK1" /\ wm5102.fll1_fout = 49152000

\* the open stream was switched from 44100 Hz, FLL1 running, to 48000 Hz
C11_Witness ==
    \E t \in Threads :
        /\ HwParamsDone(t, 0, 48000)
        /\ Found(t, 44100, 45158400, {0}, FALSE)
        /\ fll1_freq = 49152000

\* C12: a POST_PMU event whose codec calls all succeed has issued, under the
\* lock and in this order: FLL1 off, FLL1_REFCLK off, FLL1_REFCLK from MCLK1
\* to calc_sysclk(card_rate), FLL1 from the AIF2 bit clock at 64 * card_rate
\* to calc_sysclk(card_rate); it leaves fll1_freq = -calc_sysclk(card_rate)
\* and sync_path_enable set.  A PREPARE that finds sync_path_enable set
\* issues no codec call and changes no state.
C12_PmuOrderThenPrepareNoop ==
    \A t \in Threads :
        /\ (/\ frame[t].op = "spdif_rx_enable_event"
            /\ frame[t].event = "POST_PMU"
            /\ pc[t] = "ev_out"
            /\ ~AnyFailed(frame[t].calls))
            => /\ lock = t
               /\ frame[t].calls =
                    << Call("set_pll", "FLL1", "NONE", 0, 0, 0),
                       Call("set_pll", "FLL1_REFCLK", "NONE", 0, 0, 0),
                       Call("set_pll", "FLL1_REFCLK", "MCLK1", WM8804_CLKOUT_HZ,
                            calc_sysclk(card_rate), 0),
                       Call("set_pll", "FLL1", "AIF2BCLK", 64 * card_rate,
                            calc_sysclk(card_rate), 0) >>
               /\ fll1_freq = 0 - calc_sysclk(card_rate)
               /\ sync_path_enable
               /\ card_rate = frame[t].before.card_rate
               /\ params_set = frame[t].before.params_set
        /\ (/\ frame[t].op = "set_bias_level"
            /\ frame[t].level = "PREPARE"
            /\ pc[t] \in FinalPcs
            /\ frame[t].before.sync_path_enable)
            => /\ frame[t].calls = <<>>
               /\ frame[t].ret = 0
               /\ Snapshot = frame[t].before

\* the sync path was set up at 48000 Hz and a PREPARE then found it set
C12_Witness ==
    \E t \in Threads :
        /\ frame[t].op = "set_bias_level" /\ pc[t] = "sb_unlock"
        /\ frame[t].before.sync_path_enable
        /\ fll1_freq = 0 - WM5102_MAX_SYSCLK_1
        /\ wm5102 = [fll1_src |-> "AIF2BCLK", fll1_fout |-> WM5102_MAX_SYSCLK_1,
                     refclk_src |-> "MCLK1", refclk_fout |-> WM5102_MAX_SYSCLK_1]

\* the rates that are a whole number of times 4000
Multiples4000 == {4000 * k : k \in 0..48}

\* C13: calc_sysclk(r) is 49152000 if and only if r is a multiple of 4000,
\* and 45158400 otherwise; it returns no other value.  Every use of it by a
\* callback obeys the same rule.
C13_FamilyByMultipleOf4000 ==
    \A t \in Threads :
        /\ (frame[t].op = "calc_sysclk" /\ pc[t] = "fn_ret") =>
              /\ frame[t].clk_freq = 49152000 <=> frame[t].rate \in Multiples4000
              /\ frame[t].rate \notin Multiples4000 => frame[t].clk_freq = 45158400
              /\ frame[t].clk_freq \in {49152000, 45158400}
        /\ (frame[t].op = "hw_params") =>
              frame[t].clk_freq =
                 IF frame[t].rate \in Multiples4000 THEN 49152000 ELSE 45158400

\* calc_sysclk applied to a multiple of 4000 that is no audio rate
C13_Witness ==
    \E t \in Threads :
        /\ frame[t].op = "calc_sysclk" /\ pc[t] = "fn_ret"
        /\ frame[t].rate = 12000
        /\ frame[t].clk_freq = WM5102_MAX_SYSCLK_1

\* what a mask of the low n bits leaves of a byte
LowBits(x, i) == IF i = 3 THEN x % 64 ELSE x % 256

\* C14: a write of the channel-status block stores for each byte the value
\* masked to its low 8 bits (bytes 0-2) or low 6 bits (byte 3), issues
\* exactly one register write for each byte whose masked value differs from
\* the cache, in byte order, and none for the others; 0xFF written to byte 3
\* over an all-zero cache stores 0x3F with exactly one write; the cached
\* byte 3 never exceeds 0x3F.
C14_StatusPutMasked ==
    /\ iec958_status[4] <= 63
    /\ \A t \in Threads :
        (frame[t].op = "spdif_playback_put" /\ pc[t] = "ctl_ret") =>
            LET ctrl == frame[t].status
                old == frame[t].old_status
                diff == {i \in 0..3 : LowBits(ctrl[i + 1], i) # old[i + 1]}
            IN /\ \A i \in 0..3 :
                    iec958_status[i + 1] = LowBits(ctrl[i + 1], i)
               /\ Len(frame[t].calls) = Cardinality(diff)
               /\ \A i \in diff :
                    \E k \in DOMAIN frame[t].calls :
                        /\ frame[t].calls[k] =
                             Call("update_bits", SpdtxReg(i), "", StatusMask(i),
                                  LowBits(ctrl[i + 1], i), 0)
                        /\ k = Cardinality({j \in diff : j <= i})
               /\ (ctrl = <<0, 0, 0, 255>> /\ old = <<0, 0, 0, 0>>) =>
                    /\ iec958_status = <<0, 0, 0, 63>>
                    /\ Len(frame[t].calls) = 1

\* 0xFF was written to byte 3 over an all-zero cache
C14_Witness ==
    \E t \in Threads :
        /\ frame[t].op = "spdif_playback_put" /\ pc[t] = "ctl_ret"
        /\ frame[t].status = <<0, 0, 0, 255>>
        /\ frame[t].old_status = <<0, 0, 0, 0>>
        /\ iec958_status = <<0, 0, 0, 63>>
        /\ Len(frame[t].calls) = 1

\* C15: min_rate_put and max_rate_put return 1 exactly when the index stored
\* after the call differs from the index stored before it; a put of the
\* value the control already holds, as the second of two equal puts in a row
\* is, returns 0.
C15_PutReturnsChanged ==
    \A t \in Threads :
        (frame[t].op \in {"min_rate_put", "max_rate_put"} /\ pc[t] = "ctl_ret") =>
            /\ frame[t].ret \in {0, 1}
            /\ frame[t].ret = 1 <=> frame[t].idx_changed
            /\ frame[t].idx_was_item => frame[t].ret = 0

\* an item past the table was written a second time and reported unchanged
C15_Witness ==
    \E t \in Threads :
        /\ frame[t].op = "min_rate_put" /\ pc[t] = "ctl_ret"
        /\ frame[t].item = NUM_MIN_RATES
        /\ frame[t].idx_was_item
        /\ min_rate_idx = NUM_MIN_RATES
        /\ frame[t].ret = 0

\* C16: rpi_cirrus_startup, with the minimum and the maximum taken from their
\* tables, applies no rate constraint when both are 0 ("off"); otherwise it
\* applies the inclusive window from the minimum (0 when "off") to the
\* maximum, UINT_MAX standing for a maximum that is "off".
C16_StartupWindow ==
    \A t \in Threads :
        (/\ frame[t].op = "startup" /\ pc[t] = "st_ret"
         /\ min_rate_idx < NUM_MIN_RATES
         /\ max_rate_idx < NUM_MAX_RATES) =>
            LET lo == min_rates[min_rate_idx + 1]
                hi == max_rates[max_rate_idx + 1]
            IN IF lo = 0 /\ hi = 0
               THEN frame[t].calls = <<>>
               ELSE frame[t].calls =
                      << Call("hw_constraint_minmax", "RATE", "", lo,
                              IF hi = 0 THEN UINT_MAX ELSE hi, 0) >>

\* a stream was opened with the minimum at 44100 and the maximum "off"
C16_Witness ==
    \E t \in Threads :
        /\ frame[t].op = "startup" /\ pc[t] = "st_ret"
        /\ min_rate_idx = 2 /\ max_rate_idx = 0
        /\ frame[t].calls =
             << Call("hw_constraint_minmax", "RATE", "", 44100, UINT_MAX, 0) >>

\* C17: hw_params sends commands to the FLLs only if it finds fll1_freq > 0
\* and different from calc_sysclk(rate); then, its calls succeeding, it sends
\* clear() and after it enable_local(calc_sysclk(rate)), in that order.  If
\* it finds the FLL off or referenced, or already at that frequency, it
\* sends no FLL command and leaves fll1_freq as it is, and records
\* card_rate = rate and the stream's bit in params_set all the same.  A
\* hw_params cut short by a failing call has sent an initial part of the
\* same commands.
C17_HwParamsFllOnlyIfLocalDiffers ==
    \A t \in Threads :
        (frame[t].op = "hw_params" /\ pc[t] = "hp_out") =>
            LET clk == calc_sysclk(frame[t].rate)
                found == frame[t].before.fll1_freq
                differs == found > 0 /\ found # clk
                pll == PllCalls(frame[t].calls)
            IN /\ ~differs => (pll = <<>> /\ fll1_freq = found)
               /\ (differs /\ ~AnyFailed(frame[t].calls)) =>
                     /\ pll = ClearFllsCalls(0, 0) \o << EnableLocal(clk) >>
                     /\ fll1_freq = clk
               /\ ~AnyFailed(frame[t].calls) =>
                     /\ card_rate = frame[t].rate
                     /\ params_set = frame[t].before.params_set \cup {frame[t].stream}
               /\ \/ pll = <<>>
                  \/ \E r1, r2 \in Results :
                        pll = ClearFllsCalls(r1, r2) /\ ClearFllsRet(r1, r2) # 0
                  \/ \E r \in Results :
                        pll = ClearFllsCalls(0, 0) \o SetFllCalls(clk, r)

\* hw_params at 48000 Hz found FLL1 referenced at 45158400 and left it alone
C17_Witness ==
    \E t \in Threads :
        /\ frame[t].op = "hw_params" /\ pc[t] = "hp_out"
        /\ ~AnyFailed(frame[t].calls)
        /\ frame[t].rate = 48000
        /\ frame[t].before.fll1_freq = 0 - WM5102_MAX_SYSCLK_2
        /\ fll1_freq = 0 - WM5102_MAX_SYSCLK_2
        /\ card_rate = 48000
        /\ PllCalls(frame[t].calls) = <<>>

\* the command that disables the FLL named id, whatever it returned
IsDisable(c, id) ==
    c.fn = "set_pll" /\ c.id = id /\ c.src = "NONE" /\ c.a = 0 /\ c.b = 0

\* calls[j] and calls[j + 1] are the two commands of clear(), in its order
ClearIssuedAt(calls, j) ==
    /\ j + 1 <= Len(calls)
    /\ IsDisable(calls[j], "FLL1")
    /\ IsDisable(calls[j + 1], "FLL1_REFCLK")

\* C18: clear() always issues both commands, FLL1 off first and FLL1_REFCLK
\* off second, whatever the first returned; it reports failure exactly when
\* one of the two failed; a failed second command leaves the first in force.
\* Seen in each caller: STANDBY clears fll1_freq exactly when clear()
\* reported success, POST_PMU and hw_params go on to start the FLL exactly
\* when it did.
C18_ClearIssuesBoth ==
    \A t \in Threads :
        LET calls == frame[t].calls
            pll == PllCalls(frame[t].calls)
        IN /\ (frame[t].op = "set_bias_level_post" /\ pc[t] = "sbp_unlock") =>
                /\ Len(calls) = 2 /\ ClearIssuedAt(calls, 1)
                /\ fll1_freq = IF AnyFailed(calls) THEN frame[t].before.fll1_freq
                               ELSE 0
                /\ calls[1].res = 0 => wm5102.fll1_src = "NONE"
           /\ (frame[t].op = "spdif_rx_enable_event" /\ pc[t] = "ev_out"
               /\ frame[t].event = "POST_PMU") =>
                /\ ClearIssuedAt(calls, 1)
                /\ Len(calls) = 2 <=> (calls[1].res # 0 \/ calls[2].res # 0)
                /\ Len(calls) = 2 =>
                      /\ frame[t].ret # 0
                      /\ calls[1].res = 0 => wm5102.fll1_src = "NONE"
           /\ (frame[t].op = "hw_params" /\ pc[t] = "hp_out" /\ pll # <<>>) =>
                /\ ClearIssuedAt(pll, 1)
                /\ Len(pll) = 2 <=> (pll[1].res # 0 \/ pll[2].res # 0)
                /\ Len(pll) = 2 /\ pll[1].res = 0 => wm5102.fll1_src = "NONE"

\* STANDBY: FLL1 was running, the first command failed, the second was still
\* issued and succeeded
C18_Witness ==
    \E t \in Threads :
        /\ frame[t].op = "set_bias_level_post" /\ pc[t] = "sbp_unlock"
        /\ Len(frame[t].calls) = 2
        /\ frame[t].calls[1].res # 0
        /\ frame[t].calls[2].res = 0
        /\ frame[t].before.fll1_freq > 0
        /\ fll1_freq = frame[t].before.fll1_freq

\* C19: the POST_PMD event clears sync_path_enable and does nothing else: it
\* issues no codec call and leaves fll1_freq, card_rate and params_set as it
\* found them.
C19_PmdOnlyClearsSync ==
    \A t \in Threads :
        (/\ frame[t].op = "spdif_rx_enable_event"
         /\ frame[t].event = "POST_PMD"
         /\ pc[t] = "ev_out") =>
            /\ ~sync_path_enable
            /\ frame[t].calls = <<>>
            /\ fll1_freq = frame[t].before.fll1_freq
            /\ card_rate = frame[t].before.card_rate
            /\ params_set = frame[t].before.params_set
            /\ frame[t].ret = 0

\* POST_PMD found the sync path set up and left FLL1 referenced
C19_Witness ==
    \E t \in Threads :
        /\ frame[t].op = "spdif_rx_enable_event"
        /\ frame[t].event = "POST_PMD"
        /\ pc[t] = "ev_out"
        /\ frame[t].before.sync_path_enable
        /\ ~sync_path_enable
        /\ fll1_freq < 0
        /\ wm5102.fll1_src = "AIF2BCLK"

\* the positions of rpi_cirrus_hw_free
HwFreePcs == {"hf_old", "hf_load", "hf_store", "hf_test", "hf_sysclk", "hf_ret"}

\* C20: no step of hw_free changes fll1_freq, sync_path_enable or card_rate,
\* or the FLLs of the codec; it changes params_set only by clearing its
\* stream's bit, and the only codec call it issues is set_sysclk(0), be its
\* result success or failure.
C20_HwFreeFrame ==
    [][\A t \in Threads :
          (pc[t] \in HwFreePcs /\ pc'[t] # pc[t]) =>
             /\ fll1_freq' = fll1_freq
             /\ sync_path_enable' = sync_path_enable
             /\ card_rate' = card_rate
             /\ wm5102' = wm5102
             /\ params_set' \in {params_set, params_set \ {frame[t].stream}}
             /\ \A i \in DOMAIN frame'[t].calls :
                   \E r \in Results :
                      frame'[t].calls[i] = Call("set_sysclk", "SYSCLK", "FLL1", 0, 0, r)
    ]_vars

\* the last stream was closed with FLL1 running and set_sysclk(0) failed
C20_Witness ==
    \E t \in Threads :
        /\ frame[t].op = "hw_free" /\ pc[t] = "hf_ret"
        /\ frame[t].old_params_set # {}
        /\ params_set = {}
        /\ Len(frame[t].calls) = 1
        /\ frame[t].calls[1].res # 0
        /\ fll1_freq > 0
        /\ wm5102.fll1_src = "MCLK1"

\* c without its result
Issued(c) == [c EXCEPT !.res = 0]

\* the calls hw_params makes ahead of any FLL command when none fails, as
\* C21 has them: bit-clock ratio, TDM slots, the WM8804 PLL at 256 * rate for
\* rates from 32000, SYSCLK from FLL1 at the frequency of the rate's family
C21_Head(rate, width) ==
    << Call("set_bclk_ratio", "I2S", "", 2 * width, 0, 0),
       Call("set_tdm_slot", "AIF1", "", 2, width, 0) >>
    \o (IF rate >= 32000
        THEN << Call("dai_set_pll", "WM8804", "PLL", 12000000, 256 * rate, 0),
                Call("dai_set_sysclk", "WM8804", "TX_CLKSRC_PLL", 256 * rate, 0, 0) >>
        ELSE <<>>)
    \o << Call("set_sysclk", "SYSCLK", "FLL1",
               IF rate \in Multiples4000 THEN 49152000 ELSE 45158400, 0, 0) >>

\* C21: the calls of one hw_params are, in this order, the bit-clock ratio,
\* the TDM slot geometry, the WM8804 PLL at 256 * rate if and only if
\* rate >= 32000 (whatever fll1_freq is), and SYSCLK tracking FLL1 at
\* calc_sysclk(rate); FLL commands come only after all of them; and a call
\* that failed is the last one issued (clear() counting as one step of two
\* commands).
C21_HwParamsOrder ==
    \A t \in Threads :
        frame[t].op = "hw_params" =>
            LET calls == frame[t].calls
                head == C21_Head(frame[t].rate, frame[t].width)
            IN /\ \A i \in DOMAIN calls :
                    IF i <= Len(head)
                    THEN Issued(calls[i]) = head[i]
                    ELSE calls[i].fn = "set_pll"
               /\ \A i \in DOMAIN calls :
                    calls[i].res # 0 =>
                        \/ i = Len(calls)
                        \/ /\ i + 1 = Len(calls)
                           /\ ClearIssuedAt(calls, i)
                           /\ pc[t] = "hp_out"
               /\ (pc[t] = "hp_out" /\ ~AnyFailed(calls)) => Len(calls) >= Len(head)

\* hw_params at 8000 Hz ran to its end, FLL1 running, without a WM8804 call
C21_Witness ==
    \E t \in Threads :
        /\ frame[t].op = "hw_params" /\ pc[t] = "hp_out"
        /\ frame[t].rate = 8000
        /\ frame[t].before.fll1_freq > 0
        /\ ~AnyFailed(frame[t].calls)
        /\ \A i \in DOMAIN frame[t].calls : frame[t].calls[i].id # "WM8804"
        /\ card_rate = 8000

BiasOps == {"set_bias_level", "set_bias_level_post"}

\* C22: a bias-level callback, pre or post, for a dapm context that is not
\* the WM5102's is ignored: from its call to its return it takes no lock,
\* issues no codec call, changes no field of the driver's state and nothing
\* in the codec, and returns 0.
C22_OtherDevIgnored ==
    [][\A t \in Threads :
          (/\ pc'[t] # pc[t]
           /\ \/ frame'[t].op \in BiasOps /\ frame'[t].dev # "wm5102"
              \/ frame[t].op \in BiasOps /\ frame[t].dev # "wm5102") =>
             /\ UNCHANGED <<card_rate, sync_path_enable, fll1_freq, params_set,
                            min_rate_idx, max_rate_idx, iec958_status,
                            link2_rate, lock, wm5102>>
             /\ pc'[t] \in {"sb_ret", "sbp_ret", "idle"}
             /\ frame'[t].calls = <<>>
             /\ frame'[t].ret = 0
    ]_vars

\* a STANDBY for another context returned with FLL1 left running
C22_Witness ==
    \E t \in Threads :
        /\ frame[t].op = "set_bias_level_post" /\ pc[t] = "sbp_ret"
        /\ frame[t].dev = "other"
        /\ frame[t].level = "STANDBY"
        /\ fll1_freq > 0
        /\ wm5102.fll1_src = "MCLK1"
        /\ lock = 0

\* C23: whenever priv->lock is free, that is in every state a callback can
\* find or leave, a positive fll1_freq equals calc_sysclk(card_rate), and
\* the codec calls may fail as they like.
C23_LocalMatchesCardRate ==
    lock = 0 => (fll1_freq > 0 => fll1_freq = calc_sysclk(card_rate))

\* hw_params moved a running FLL1 and card_rate to the other family
C23_Witness ==
    /\ lock = 0
    /\ fll1_freq = WM5102_MAX_SYSCLK_1
    /\ card_rate = 48000
    /\ wm5102.fll1_fout = WM5102_MAX_SYSCLK_1

\* C24: a hw_params in which a codec call failed leaves card_rate,
\* params_set and fll1_freq as it found them; card_rate and the stream's bit
\* change only in a hw_params all of whose calls succeeded.
C24_FailedHwParamsKeepsState ==
    \A t \in Threads :
        (frame[t].op = "hw_params" /\ pc[t] \notin {"idle", "hp_lock"}) =>
            /\ AnyFailed(frame[t].calls) =>
                 /\ pc[t] = "hp_out"
                 /\ card_rate = frame[t].before.card_rate
                 /\ params_set = frame[t].before.params_set
                 /\ fll1_freq = frame[t].before.fll1_freq
            /\ (\/ card_rate # frame[t].before.card_rate
                \/ params_set # frame[t].before.params_set) =>
                 /\ ~AnyFailed(frame[t].calls)
                 /\ Len(frame[t].calls) >= 3

\* hw_params at 48000 Hz cleared the running FLL1 and then failed to start it
C24_Witness ==
    \E t \in Threads :
        /\ frame[t].op = "hw_params" /\ pc[t] = "hp_out"
        /\ frame[t].rate = 48000
        /\ frame[t].before.fll1_freq = WM5102_MAX_SYSCLK_2
        /\ \E j \in DOMAIN frame[t].calls : ClearedAt(frame[t].calls, j)
        /\ frame[t].calls[Len(frame[t].calls)].res # 0
        /\ fll1_freq = WM5102_MAX_SYSCLK_2
        /\ card_rate = 44100
        /\ frame[t].stream \notin params_set

\* the positions at which a callback holds priv->lock
C25_HoldingPcs ==
    {"hp_bclk", "hp_tdm", "hp_wm8804", "hp_sysclk", "hp_clear", "hp_setfll",
     "hp_commit", "hp_store", "hp_out", "sb_prepare", "sb_setfll", "sb_unlock",
     "sbp_standby", "sbp_unlock", "ev_pmu", "ev_refclk", "ev_pmd", "ev_out"}

\* C25: every entry point that takes priv->lock gives it back on every path,
\* the paths of failing codec calls included: the lock is held exactly by a
\* callback inside its locked section, so it is free when no callback runs;
\* and under fair scheduling every invoked callback returns.
C25_LockAlwaysReleased ==
    /\ [](\A t \in Threads : lock = t <=> pc[t] \in C25_HoldingPcs)
    /\ []((\A t \in Threads : pc[t] = "idle") => lock = 0)
    /\ \A t \in Threads : (pc[t] # "idle") ~> (pc[t] = "idle")

\* a POST_PMU whose calls failed is about to unlock while a hw_params waits
\* for the lock
C25_Witness ==
    \E t, u \in Threads :
        /\ frame[t].op = "spdif_rx_enable_event" /\ pc[t] = "ev_out"
        /\ AnyFailed(frame[t].calls)
        /\ lock = t
        /\ pc[u] = "hp_lock"

====
